---------------------------- MODULE Spec2Model ----------------------------
(***************************************************************************)
(* Model of the feed-forward network of include/network.h (class           *)
(* NeuralNetwork<T>) with the numeric helpers of include/common.h it       *)
(* calls (dot_product, apply_function, softmax).                           *)
(*                                                                         *)
(* Numbers of the element type T are fixed-point integers: the integer n   *)
(* stands for the value n / Scale.  Products and quotients are rounded     *)
(* toward zero to the next representable value, and exp is tabulated on    *)
(* that grid.  Vectors and matrices are 1-based sequences, so the C++      *)
(* index i is the TLA+ index i + 1; values returned to the caller          *)
(* (predict's class index) are converted back to the C++ 0-based index.    *)
(***************************************************************************)
EXTENDS Integers, Sequences, FiniteSets, TLC

(***************************************************************************)
(* Bounds of the model.                                                    *)
(***************************************************************************)
MaxSamples == 2        \* longest inputs / labels sequence passed to a call
MaxEpochs == 2         \* largest epochs argument of train
MaxTrainCalls == 1     \* train calls per behaviour (predict / evaluate are free)
MaxSeed == 1           \* seeds of the weight generator are 0..MaxSeed
MaxArchLen == 3        \* longest architecture handed to the constructor
MaxWidth == 2          \* largest layer size handed to the constructor

\* Resolution of the fixed-point representation of T: n stands for n / Scale.
Scale == 4

---------------------------------------------------------------------------
(***************************************************************************)
(* Arithmetic of T on the fixed-point grid.                                *)
(***************************************************************************)
Abs(x) == IF x < 0 THEN -x ELSE x

\* quotient rounded toward zero (b # 0)
TruncDiv(a, b) ==
    IF (a >= 0) = (b > 0) THEN Abs(a) \div Abs(b) ELSE -(Abs(a) \div Abs(b))

\* a * b of two values of T
Mul(a, b) == TruncDiv(a * b, Scale)

\* a / b of two values of T
Div(a, b) == TruncDiv(a * Scale, b)

\* std::exp(d / Scale) * Scale for d <= 0, rounded to the grid
Exp(d) ==
    CASE d >= 0  -> Scale
      [] d = -1  -> 3
      [] d = -2  -> 2
      [] d = -3  -> 2
      [] d >= -8 -> 1
      [] OTHER   -> 0

Max(a, b) == IF a < b THEN b ELSE a

\* the vector of n copies of v
Fill(n, v) == [k \in 1..n |-> v]

RECURSIVE SumUpTo(_, _)
\* f[1] + ... + f[n], accumulated in index order
SumUpTo(f, n) == IF n = 0 THEN 0 ELSE SumUpTo(f, n - 1) + f[n]

---------------------------------------------------------------------------
(***************************************************************************)
(* include/common.h                                                        *)
(***************************************************************************)
\* Mutant of dot_product_throws: only a second vector shorter than the first
\* is rejected.
dot_product_throws_shorter(a, b) == Len(a) > Len(b)

\* dot_product throws std::invalid_argument exactly when the sizes differ
dot_product_throws(a, b) == Len(a) # Len(b)

\* dot_product(a, b) for vectors of equal size
dot_product(a, b) == SumUpTo([k \in 1..Len(a) |-> Mul(a[k], b[k])], Len(a))

RECURSIVE MaxElementFromLast(_, _, _)
\* Mutant of MaxElementFrom: a later element equal to the largest replaces it.
MaxElementFromLast(vec, largest, k) ==
    IF k > Len(vec) THEN largest
    ELSE MaxElementFromLast(vec, IF vec[largest] <= vec[k] THEN k ELSE largest, k + 1)

RECURSIVE MaxElementFrom(_, _, _)
\* std::max_element: scan left to right, keep the first largest element.
\* Returns the (1-based) position; vec is not empty.
MaxElementFrom(vec, largest, k) ==
    IF k > Len(vec) THEN largest
    ELSE MaxElementFrom(vec, IF vec[largest] < vec[k] THEN k ELSE largest, k + 1)

max_element(vec) == MaxElementFrom(vec, 1, 2)

\* the ReLU lambda passed to apply_function in forward_propagation
relu(x) == Max(0, x)

\* apply_function(vec, relu)
apply_relu(vec) == [k \in 1..Len(vec) |-> relu(vec[k])]

\* softmax(vec), vec not empty
softmax(vec) ==
    LET max_elem   == vec[max_element(vec)]
        exp_values == [k \in 1..Len(vec) |-> Exp(vec[k] - max_elem)]
        sum_exp    == SumUpTo(exp_values, Len(vec))
    IN  [k \in 1..Len(vec) |-> Div(exp_values[k], sum_exp)]

\* one_hot_encode(label, num_classes), label the 0-based class
one_hot_encode(label, num_classes) ==
    [k \in 1..num_classes |-> IF k = label + 1 THEN Scale ELSE 0]

---------------------------------------------------------------------------
(***************************************************************************)
(* include/network.h: the object.  The state of a NeuralNetwork<T> is a    *)
(* record nn with the fields of the class; every method is an operator     *)
(* from that record (and the arguments) to the record after the call.      *)
(***************************************************************************)

RECURSIVE gen(_, _)
\* state of the generator seeded with seed after n draws: a linear
\* congruential generator stands for std::mt19937
gen(seed, n) == IF n = 0 THEN seed ELSE (5 * gen(seed, n - 1) + 3) % (Scale * Scale)

\* n-th value drawn from dis(gen), a value of [-0.5, 0.5) on the grid (n counts
\* the draws from 1)
dis(seed, n) == (gen(seed, n) \div Scale) - (Scale \div 2)

\* number of weights drawn for the layers before layer l (1-based)
DrawsBefore(architecture, l) ==
    SumUpTo([k \in 1..(l - 1) |-> architecture[k + 1] * architecture[k]], l - 1)

\* The constructor throws std::length_error when a vector is given a negative
\* size; only the entries the loop visits (i = 1 .. size-1, entries i-1 and i)
\* are converted to a size.
NeuralNetworkThrows(architecture) ==
    \E i \in 2..Len(architecture) : architecture[i] < 0 \/ architecture[i - 1] < 0

\* Mutant of NeuralNetwork: rows and columns of each weight matrix exchanged.
NeuralNetworkTransposed(architecture, learning_rate, seed) ==
    [ weights |->
        [l \in 1..(Len(architecture) - 1) |->
          [r \in 1..architecture[l] |->
            [c \in 1..architecture[l + 1] |->
               dis(seed, DrawsBefore(architecture, l)
                           + (r - 1) * architecture[l + 1] + c)]]],
      biases |->
        [l \in 1..(Len(architecture) - 1) |-> Fill(architecture[l + 1], 0)],
      activations   |-> << >>,
      z_values      |-> << >>,
      learning_rate |-> learning_rate ]

\* NeuralNetwork(architecture, learning_rate), weights drawn with the given seed
NeuralNetwork(architecture, learning_rate, seed) ==
    [ weights |->
        [l \in 1..(Len(architecture) - 1) |->
          [r \in 1..architecture[l + 1] |->
            [c \in 1..architecture[l] |->
               dis(seed, DrawsBefore(architecture, l)
                           + (r - 1) * architecture[l] + c)]]],
      biases |->
        [l \in 1..(Len(architecture) - 1) |-> Fill(architecture[l + 1], 0)],
      activations   |-> << >>,
      z_values      |-> << >>,
      learning_rate |-> learning_rate ]

RECURSIVE ForwardLayers(_, _, _)
\* the loop of forward_propagation from layer i on, output the previous
\* layer's activation.  A throwing dot_product leaves the cache as built so far.
ForwardLayers(nn, output, i) ==
    IF i > Len(nn.weights)
    THEN [nn |-> nn, threw |-> FALSE, output |-> output]
    ELSE LET W == nn.weights[i] IN
         IF \E j \in 1..Len(W) : dot_product_throws(W[j], output)
         THEN [nn |-> nn, threw |-> TRUE, output |-> << >>]
         ELSE LET z   == [j \in 1..Len(W) |->
                            dot_product(W[j], output) + nn.biases[i][j]]
                  out == IF i = Len(nn.weights) THEN softmax(z) ELSE apply_relu(z)
              IN  ForwardLayers([nn EXCEPT !.z_values   = Append(@, z),
                                           !.activations = Append(@, out)],
                                out, i + 1)

\* Mutant of forward_propagation: z is accumulated in the bias vectors.
forward_propagation_in_place(nn, input) ==
    LET f == ForwardLayers([nn EXCEPT !.activations = << >>, !.z_values = << >>],
                           input, 1)
    IN  [f EXCEPT !.nn.biases =
           [l \in 1..Len(@) |-> IF l <= Len(f.nn.z_values) THEN f.nn.z_values[l]
                                                            ELSE @[l]]]

\* Mutant of forward_propagation: the cache of the call before is kept and
\* the vectors of this call are appended to it.
forward_propagation_appending(nn, input) == ForwardLayers(nn, input, 1)

\* forward_propagation(input): [nn: the object after the call, threw: whether
\* std::invalid_argument left the call, output: the returned vector]
forward_propagation(nn, input) ==
    ForwardLayers([nn EXCEPT !.activations = << >>, !.z_values = << >>], input, 1)

\* target[i] as backward_propagation reads it: an index past the end of the
\* target is an out-of-bounds read, whose value oob[i] is indeterminate
TargetAt(target, i, oob) == IF i <= Len(target) THEN target[i] ELSE oob[i]

\* the update of weights[layer] and biases[layer] (lines 70-75)
UpdateLayer(nn, layer, delta, input) ==
    LET W    == nn.weights[layer]
        prev == IF layer = 1 THEN input ELSE nn.activations[layer - 1]
    IN  [nn EXCEPT
          !.weights[layer] =
             [i \in 1..Len(W) |-> [j \in 1..Len(W[i]) |->
                W[i][j] - Mul(Mul(nn.learning_rate, delta[i]), prev[j])]],
          !.biases[layer] =
             [i \in 1..Len(@) |->
                IF i <= Len(W) THEN @[i] - Mul(nn.learning_rate, delta[i])
                               ELSE @[i]]]

\* delta for the layer before `layer` (lines 79-86), from the weights as they
\* are when the lines run
NewDelta(nn, layer, delta) ==
    LET W == nn.weights[layer] IN
    [j \in 1..Len(W[1]) |->
       LET s == SumUpTo([i \in 1..Len(W) |-> Mul(delta[i], W[i][j])], Len(W))
       IN  IF nn.z_values[layer - 1][j] > 0 THEN s ELSE 0]

RECURSIVE BackwardLayersDeltaFirst(_, _, _, _)
\* Mutant of BackwardLayers: the delta of the preceding layer is taken from
\* the weights as they were before this call's update of the layer.
BackwardLayersDeltaFirst(nn, layer, delta, input) ==
    IF layer < 1 THEN nn
    ELSE LET updated == UpdateLayer(nn, layer, delta, input) IN
         IF layer > 1
         THEN BackwardLayersDeltaFirst(updated, layer - 1,
                                       NewDelta(nn, layer, delta), input)
         ELSE updated

RECURSIVE BackwardLayers(_, _, _, _)
\* the loop of backward_propagation from `layer` down to the first layer
BackwardLayers(nn, layer, delta, input) ==
    IF layer < 1 THEN nn
    ELSE LET updated == UpdateLayer(nn, layer, delta, input) IN
         IF layer > 1
         THEN BackwardLayers(updated, layer - 1,
                             NewDelta(updated, layer, delta), input)
         ELSE updated

\* backward_propagation(input, target); the cache holds at least one layer
backward_propagation(nn, input, target, oob) ==
    LET back  == nn.activations[Len(nn.activations)]
        delta == [i \in 1..Len(back) |-> back[i] - TargetAt(target, i, oob)]
    IN  BackwardLayers(nn, Len(nn.weights), delta, input)

\* predict(input): [nn, threw, value: the 0-based index returned]
predict(nn, input) ==
    LET f == forward_propagation(nn, input) IN
    [nn |-> f.nn, threw |-> f.threw,
     value |-> IF f.threw THEN -1 ELSE max_element(f.output) - 1]

RECURSIVE EvaluateLoop(_, _, _, _, _, _)
\* the loop of evaluate from sample i (1-based) on, `correct` counted so far.
\* labels[i] past the end of labels is an out-of-bounds read of value oob[i].
EvaluateLoop(nn, inputs, labels, oob, i, correct) ==
    IF i > Len(inputs)
    THEN [nn |-> nn, threw |-> FALSE, correct |-> correct]
    ELSE LET p     == predict(nn, inputs[i])
             label == IF i <= Len(labels) THEN labels[i] ELSE oob[i]
         IN  IF p.threw
             THEN [nn |-> p.nn, threw |-> TRUE, correct |-> correct]
             ELSE EvaluateLoop(p.nn, inputs, labels, oob, i + 1,
                               IF p.value = label THEN correct + 1 ELSE correct)

RECURSIVE Gcd(_, _)
Gcd(a, b) == IF b = 0 THEN a ELSE Gcd(b, a % b)

\* Mutant of Accuracy: the quotient is taken in int, before the conversion.
AccuracyIntegerDivision(correct, size) ==
    IF size = 0 THEN "NaN" ELSE << (correct \div size) * 100, 1 >>

\* The double static_cast<double>(correct) / size * 100.0 as the number it
\* stands for: the fraction in lowest terms, or NaN for 0.0 / 0 (correct is 0
\* whenever size is 0).
Accuracy(correct, size) ==
    IF size = 0 THEN "NaN"
    ELSE LET g == Gcd(correct * 100, size)
         IN  << (correct * 100) \div g, size \div g >>

\* evaluate(inputs, labels): [nn, threw, value]
evaluate(nn, inputs, labels, oob) ==
    LET r == EvaluateLoop(nn, inputs, labels, oob, 1, 0) IN
    [nn |-> r.nn, threw |-> r.threw,
     value |-> IF r.threw THEN "none" ELSE Accuracy(r.correct, Len(inputs))]

---------------------------------------------------------------------------
(***************************************************************************)
(* The state machine: one network object and its single-threaded caller.   *)
(***************************************************************************)
VARIABLES
    weights, biases, activations, z_values, learning_rate, \* the object's fields
    architecture,   \* the constructor's argument
    pc,             \* where the caller is: "new", "idle", inside train, ...
    frame,          \* arguments and loop variables of the running train call
    ret,            \* how the last finished call ended: [op, status, value]
    entry,          \* Parameters of the object when the last call was entered
    committed,      \* Parameters after the last completed sample of train
    trace,          \* forward / backward calls made by the last train call
    trains          \* number of train calls entered

vars == << weights, biases, activations, z_values, learning_rate, architecture,
           pc, frame, ret, entry, committed, trace, trains >>

\* the object as a record
This == [ weights |-> weights, biases |-> biases, activations |-> activations,
          z_values |-> z_values, learning_rate |-> learning_rate ]

\* the parameter store of the object and its learning rate
Parameters(nn) == [ weights |-> nn.weights, biases |-> nn.biases,
                    learning_rate |-> nn.learning_rate ]

\* the object becomes nn
Becomes(nn) ==
    /\ weights' = nn.weights
    /\ biases' = nn.biases
    /\ activations' = nn.activations
    /\ z_values' = nn.z_values
    /\ learning_rate' = nn.learning_rate

NoFrame == [ inputs |-> << >>, labels |-> << >>, epochs |-> 0, epoch |-> 0, i |-> 0 ]
NoRet == [ op |-> "none", status |-> "none", value |-> "none" ]

\* sequences over S of length at most n
SeqsUpTo(S, n) == UNION { [1..k -> S] : k \in 0..n }

\* Architectures the behaviours construct their network from
Architectures == { <<2, 2>>, <<2, 3>>, <<2, 3, 2>> }

\* learning rates handed to the constructor, as values of T (0.5 and 1.0):
\* with the larger one a weight update is more than one step of the grid
LearningRates == { Scale \div 2, Scale }

input_size == architecture[1]
output_size == architecture[Len(architecture)]

\* Input vectors of the right length: the unit vectors
ValidInputs == { one_hot_encode(c, input_size) : c \in 0..(input_size - 1) }

\* Input vectors of a wrong length: one too short and one too long
BadInputs == { Fill(input_size - 1, Scale), Fill(input_size + 1, Scale) }

InputVectors == ValidInputs \cup BadInputs

\* the class of a unit vector: the position of its 1, folded into the classes
ClassOf(input) ==
    (CHOOSE c \in 0..(Len(input) - 1) : input[c + 1] = Scale) % output_size

\* Target vectors of a wrong length: one too short and one too long
BadTargets ==
    { one_hot_encode(0, output_size - 1), one_hot_encode(0, output_size + 1) }

TargetVectors ==
    { one_hot_encode(c, output_size) : c \in 0..(output_size - 1) } \cup BadTargets

\* Training sets handed to train: up to MaxSamples valid inputs, each with the
\* one-hot target of its class, and the same with one defect: an input or a
\* target of a wrong length, the last target missing, or a surplus target.
CleanTrainingSets ==
    { [ inputs |-> s,
        labels |-> [k \in 1..Len(s) |-> one_hot_encode(ClassOf(s[k]), output_size)] ] :
      s \in SeqsUpTo(ValidInputs, MaxSamples) }

\* the defective variants of a clean training set d
Defective(d) ==
    { [d EXCEPT !.inputs[k] = x] : k \in 1..Len(d.inputs), x \in BadInputs }
      \cup { [d EXCEPT !.labels[k] = t] : k \in 1..Len(d.labels), t \in BadTargets }
      \cup { [d EXCEPT !.labels = SubSeq(@, 1, Len(@) - 1)] : k \in 1..Len(d.labels) }
      \cup { [d EXCEPT !.labels = Append(@, one_hot_encode(0, output_size))] }

TrainingSets == CleanTrainingSets \cup UNION { Defective(d) : d \in CleanTrainingSets }

\* values an out-of-bounds read of a T may yield
IndeterminateT == { 0, 2 * Scale }

\* values an out-of-bounds read of an int label may yield
IndeterminateInt == { 0, 7 }

Init ==
    /\ architecture \in Architectures
    /\ \E lr \in LearningRates, seed \in 0..MaxSeed :
         LET nn == NeuralNetwork(architecture, lr, seed) IN
         /\ weights = nn.weights
         /\ biases = nn.biases
         /\ activations = nn.activations
         /\ z_values = nn.z_values
         /\ learning_rate = nn.learning_rate
         /\ entry = Parameters(nn)
         /\ committed = Parameters(nn)
    /\ pc = "idle"
    /\ frame = NoFrame
    /\ ret = NoRet
    /\ trace = << >>
    /\ trains = 0

\* the running call returns (status "ok") or is left by an exception
Returns(op, status, value) ==
    /\ pc' = "returned"
    /\ ret' = [op |-> op, status |-> status, value |-> value]

\* the process dies on an out-of-bounds access
Crashes(op) ==
    /\ pc' = "crashed"
    /\ ret' = [op |-> op, status |-> "crash", value |-> "none"]

\* indices lo+1 .. hi read past the end of a vector of size lo
OobReads(lo, hi, S) == [ (lo + 1)..hi -> S ]

(***************************************************************************)
(* train(inputs, labels, epochs), lines 119-133.  The call is entered, then *)
(* TrainForward (line 123) and TrainBackward (lines 124-131) alternate.    *)
(* frame.epoch and frame.i are the C++ loop variables (0-based).           *)
(***************************************************************************)
Train(inputs, labels, epochs) ==
    /\ pc = "idle"
    /\ trains < MaxTrainCalls
    /\ trains' = trains + 1
    /\ entry' = Parameters(This)
    /\ committed' = Parameters(This)
    /\ trace' = << >>
    /\ frame' = [ inputs |-> inputs, labels |-> labels, epochs |-> epochs,
                  epoch |-> 0, i |-> 0 ]
    /\ IF epochs > 0 /\ Len(inputs) > 0
       THEN pc' = "train_forward" /\ ret' = NoRet
       ELSE Returns("train", "ok", "none")
    /\ UNCHANGED << weights, biases, activations, z_values, learning_rate,
                    architecture >>

TrainForward ==
    /\ pc = "train_forward"
    /\ LET f == forward_propagation(This, frame.inputs[frame.i + 1]) IN
       /\ Becomes(f.nn)
       /\ IF f.threw
          THEN Returns("train", "invalid_argument", "none")
          ELSE pc' = "train_backward" /\ ret' = ret
    /\ trace' = Append(trace, << "forward", frame.epoch, frame.i >>)
    /\ UNCHANGED << architecture, frame, entry, committed, trains >>

\* Mutant of Advance: the inner loop stops one sample early.
AdvanceSkipsLast(fr) ==
    IF fr.i + 2 < Len(fr.inputs)
    THEN [fr EXCEPT !.i = @ + 1]
    ELSE [fr EXCEPT !.i = 0, !.epoch = @ + 1]

\* frame after the increments of the two loops; the call is over when
\* epoch reaches epochs
Advance(fr) ==
    IF fr.i + 1 < Len(fr.inputs)
    THEN [fr EXCEPT !.i = @ + 1]
    ELSE [fr EXCEPT !.i = 0, !.epoch = @ + 1]

\* lines 124-131 with `target` the vector labels[i] refers to
TrainBackwardWith(target) ==
    \E oob \in OobReads(Len(target), output_size, IndeterminateT) :
       LET nn == backward_propagation(This, frame.inputs[frame.i + 1], target, oob)
           fr == Advance(frame)
       IN  /\ Becomes(nn)
           /\ committed' = Parameters(nn)
           /\ trace' = Append(trace, << "backward", frame.epoch, frame.i >>)
           /\ frame' = fr
           /\ \/ IF fr.epoch < fr.epochs
                 THEN pc' = "train_forward" /\ ret' = ret
                 ELSE Returns("train", "ok", "none")
              \/ \* the loss loop reads output[j] for j >= output.size()
                 /\ Len(target) > output_size
                 /\ Crashes("train")
           /\ UNCHANGED << architecture, entry, trains >>

\* labels[i] past the end of labels refers to no vector: whatever the memory
\* there holds is read as one, or the access faults.  A target shorter than
\* the output is read past its end in backward_propagation likewise.
TrainBackward ==
    /\ pc = "train_backward"
    /\ \/ /\ frame.i + 1 <= Len(frame.labels)
          /\ TrainBackwardWith(frame.labels[frame.i + 1])
       \/ /\ frame.i + 1 > Len(frame.labels)
          /\ \E target \in TargetVectors : TrainBackwardWith(target)
       \/ /\ \/ frame.i + 1 > Len(frame.labels)
             \/ /\ frame.i + 1 <= Len(frame.labels)
                /\ Len(frame.labels[frame.i + 1]) < output_size
          /\ Crashes("train")
          /\ UNCHANGED << weights, biases, activations, z_values, learning_rate,
                          architecture, frame, entry, committed, trace, trains >>

(***************************************************************************)
(* predict(input), lines 157-160, and evaluate(inputs, labels), 141-150.   *)
(***************************************************************************)
Predict(input) ==
    /\ pc = "idle"
    /\ LET p == predict(This, input) IN
       /\ Becomes(p.nn)
       /\ IF p.threw
          THEN Returns("predict", "invalid_argument", "none")
          ELSE Returns("predict", "ok", p.value)
    /\ entry' = Parameters(This)
    /\ committed' = Parameters(This)
    /\ trace' = << >>
    /\ frame' = [NoFrame EXCEPT !.inputs = << input >>]
    /\ UNCHANGED << architecture, trains >>

Evaluate(inputs, labels) ==
    /\ pc = "idle"
    /\ entry' = Parameters(This)
    /\ committed' = Parameters(This)
    /\ trace' = << >>
    /\ frame' = [NoFrame EXCEPT !.inputs = inputs, !.labels = labels]
    /\ \E oob \in OobReads(Len(labels), Len(inputs), IndeterminateInt) :
         LET e == evaluate(This, inputs, labels, oob) IN
         \/ /\ Becomes(e.nn)
            /\ IF e.threw
               THEN Returns("evaluate", "invalid_argument", "none")
               ELSE Returns("evaluate", "ok", e.value)
         \/ \* labels[i] read past the end of labels faults, after the
            \* predict call of that sample
            /\ Len(labels) < Len(inputs)
            /\ LET upto == EvaluateLoop(This, SubSeq(inputs, 1, Len(labels) + 1),
                                        labels, oob, 1, 0)
               IN  /\ ~upto.threw
                   /\ Becomes(upto.nn)
            /\ Crashes("evaluate")
    /\ UNCHANGED << architecture, trains >>

\* the caller takes the result; the next call may follow
Return ==
    /\ pc = "returned"
    /\ pc' = "idle"
    /\ frame' = NoFrame
    /\ ret' = NoRet
    /\ entry' = Parameters(This)
    /\ committed' = Parameters(This)
    /\ trace' = << >>
    /\ UNCHANGED << weights, biases, activations, z_values, learning_rate,
                    architecture, trains >>

\* class labels of a test set
Labels == 0..(output_size - 1)

\* Test sets handed to evaluate: up to MaxSamples valid inputs with any
\* labels, and valid inputs with the labels of their classes and one defect:
\* an input of a wrong length, or the last label missing.
TestSets ==
    LET clean == SeqsUpTo(ValidInputs, MaxSamples)
        own(s) == [k \in 1..Len(s) |-> ClassOf(s[k])]
    IN  UNION { { [inputs |-> s, labels |-> l] : l \in [1..Len(s) -> Labels] }
                  \cup { [inputs |-> [s EXCEPT ![k] = x], labels |-> own(s)] :
                           k \in 1..Len(s), x \in BadInputs }
                  \cup { [inputs |-> s, labels |-> SubSeq(own(s), 1, Len(s) - 1)] :
                           k \in 1..Len(s) }
                : s \in clean }

Next ==
    \/ \E d \in TrainingSets, epochs \in 0..MaxEpochs :
          Train(d.inputs, d.labels, epochs)
    \/ TrainForward
    \/ TrainBackward
    \/ \E input \in InputVectors : Predict(input)
    \/ \E d \in TestSets : Evaluate(d.inputs, d.labels)
    \/ Return

Spec == Init /\ [][Next]_vars

---------------------------------------------------------------------------
(***************************************************************************)
(* Construction on its own: the constructor is handed any architecture,    *)
(* also those section 4.1 of the design calls invalid.                     *)
(***************************************************************************)
AnyArchitectures == SeqsUpTo((-1)..MaxWidth, MaxArchLen)

ValidArchitecture(a) == Len(a) >= 2 /\ \A k \in 1..Len(a) : a[k] > 0

CtorInit ==
    /\ architecture \in AnyArchitectures
    /\ pc = "new"
    /\ weights = << >>
    /\ biases = << >>
    /\ activations = << >>
    /\ z_values = << >>
    /\ learning_rate = 0
    /\ entry = Parameters(This)
    /\ committed = Parameters(This)
    /\ frame = NoFrame
    /\ ret = NoRet
    /\ trace = << >>
    /\ trains = 0

\* NeuralNetwork<T> nn(architecture, lr), lines 97-111
Construct(lr, seed) ==
    /\ pc = "new"
    /\ IF NeuralNetworkThrows(architecture)
       THEN /\ pc' = "failed"
            /\ ret' = [op |-> "NeuralNetwork", status |-> "length_error",
                       value |-> "none"]
            /\ UNCHANGED << weights, biases, activations, z_values, learning_rate,
                            entry, committed >>
       ELSE LET nn == NeuralNetwork(architecture, lr, seed) IN
            /\ Becomes(nn)
            /\ entry' = Parameters(nn)
            /\ committed' = Parameters(nn)
            /\ pc' = "idle"
            /\ ret' = [op |-> "NeuralNetwork", status |-> "ok", value |-> "none"]
    /\ UNCHANGED << architecture, frame, trace, trains >>

CtorNext == \E lr \in LearningRates, seed \in 0..MaxSeed : Construct(lr, seed)

CtorSpec == CtorInit /\ [][CtorNext]_vars

---------------------------------------------------------------------------
(***************************************************************************)
(* Properties.                                                             *)
(***************************************************************************)

\* C1: for an architecture a of n >= 2 positive sizes the network has n - 1
\* layers, and in every state reachable by train, evaluate and predict calls
\* layer i has a[i+1] weight rows of a[i] columns and a[i+1] biases.
C1_Shapes ==
    /\ ValidArchitecture(architecture)
    /\ Len(weights) = Len(architecture) - 1
    /\ Len(biases) = Len(architecture) - 1
    /\ \A l \in 1..Len(weights) :
         /\ Len(weights[l]) = architecture[l + 1]
         /\ \A r \in 1..Len(weights[l]) : Len(weights[l][r]) = architecture[l]
         /\ Len(biases[l]) = architecture[l + 1]

\* C1's case: a [2,3,2] network whose weights a completed train call changed
C1_Witness ==
    /\ architecture = <<2, 3, 2>>
    /\ pc = "returned" /\ ret.op = "train" /\ ret.status = "ok"
    /\ weights # entry.weights
    /\ Len(weights[1]) = 3 /\ Len(weights[1][1]) = 2
    /\ Len(weights[2]) = 2 /\ Len(weights[2][1]) = 3
    /\ Len(biases[1]) = 3 /\ Len(biases[2]) = 2

\* the forward and backward calls train(inputs, ., epochs) makes when no call
\* fails: epoch by epoch, sample by sample, forward then backward
ExpectedTrace(n, epochs) ==
    [p \in 1..(2 * n * epochs) |->
       << IF (p - 1) % 2 = 0 THEN "forward" ELSE "backward",
          (p - 1) \div (2 * n),
          ((p - 1) % (2 * n)) \div 2 >>]

\* C2 (state part): a train call that returns has made exactly epochs * N
\* forward/backward pairs in epoch-major, sample-index order, and the cache
\* backward consumes is the one forward computes for the same sample.
C2_StepOrder ==
    /\ (pc = "returned" /\ ret.op = "train" /\ ret.status = "ok") =>
          trace = ExpectedTrace(Len(frame.inputs), frame.epochs)
    /\ pc \in {"train_forward", "train_backward"} =>
          /\ Len(trace) % 2 = (IF pc = "train_backward" THEN 1 ELSE 0)
          /\ trace = SubSeq(ExpectedTrace(Len(frame.inputs), frame.epochs),
                            1, Len(trace))
          /\ Len(trace) \div 2 = frame.epoch * Len(frame.inputs) + frame.i
    /\ pc = "train_backward" =>
          LET f == forward_propagation(This, frame.inputs[frame.i + 1]) IN
          /\ ~f.threw
          /\ trace[Len(trace)] = << "forward", frame.epoch, frame.i >>
          /\ activations = f.nn.activations
          /\ z_values = f.nn.z_values

\* C2 (epochs = 0): the call changes no weight, bias or cache entry
C2_ZeroEpochs ==
    (pc = "idle" /\ pc' = "returned" /\ ret'.op = "train" /\ frame'.epochs = 0)
       => UNCHANGED << weights, biases, activations, z_values >>

\* C2: train performs exactly epochs * N update steps in epoch-major and
\* sample order, each a forward on sample i immediately followed by a backward
\* on sample i, and with epochs = 0 it changes nothing.
C2_TrainSteps == [] C2_StepOrder /\ [][C2_ZeroEpochs]_vars

\* C2's case: a completed train call of MaxEpochs epochs over 2 samples
C2_Witness ==
    /\ pc = "returned" /\ ret.op = "train" /\ ret.status = "ok"
    /\ Len(frame.inputs) = 2 /\ frame.epochs = 2
    /\ Len(trace) = 8
    /\ trace[3] = << "forward", 0, 1 >> /\ trace[6] = << "backward", 1, 0 >>

\* C3: forward, predict and evaluate change only the cache: weights, biases
\* and the learning rate change in no step but the backward pass of train, the
\* learning rate in none, whether the call succeeds or fails.
C3_Frame ==
    [][ /\ learning_rate' = learning_rate
        /\ pc # "train_backward" => UNCHANGED << weights, biases >>
        /\ (pc' \in {"returned", "crashed"} /\ ret'.op \in {"predict", "evaluate"})
              => UNCHANGED << weights, biases >> ]_vars

\* C3's case: after training, an evaluate call that failed and changed the cache
C3_Witness ==
    /\ \A seed \in 0..MaxSeed :
          weights # NeuralNetwork(architecture, learning_rate, seed).weights
    /\ pc = "returned" /\ ret.op = "evaluate" /\ ret.status = "invalid_argument"
    /\ Len(frame.inputs) = 2
    /\ activations = << >>
    /\ weights = entry.weights /\ biases = entry.biases

\* C4: for an input of the right length predict returns the smallest index k
\* at which forward's output is maximal, so 0 <= k < output_size.
C4_ArgMax ==
    (pc = "returned" /\ ret.op = "predict"
        /\ Len(frame.inputs[1]) = Len(weights[1][1])) =>
      LET out == forward_propagation(This, frame.inputs[1]).output
          k   == ret.value
      IN  /\ ret.status = "ok"
          /\ k \in 0..(output_size - 1)
          /\ Len(out) = output_size
          /\ \A j \in 1..Len(out) : out[j] <= out[k + 1]
          /\ \A j \in 1..k : out[j] < out[k + 1]

\* C4's case: the maximum is attained twice and is not at the first index
C4_Witness ==
    /\ pc = "returned" /\ ret.op = "predict" /\ ret.status = "ok"
    /\ LET out == activations[Len(activations)] IN
       /\ Len(out) = 3
       /\ ret.value = 1
       /\ out[1] < out[2] /\ out[3] = out[2]

\* C5 as stated: a train call whose inputs and targets differ in length is
\* left by the dimension-mismatch error before any sample is processed.
C5_MismatchRaises ==
    (ret.op = "train" /\ pc \in {"returned", "crashed"}
        /\ Len(frame.inputs) # Len(frame.labels)) =>
      /\ ret.status = "invalid_argument"
      /\ trace = << >>

\* C6 as stated: construction from an architecture of fewer than 2 entries or
\* with an entry <= 0 fails and produces no network.
C6_InvalidArchitectureFails ==
    (pc # "new" /\ ~ValidArchitecture(architecture)) =>
      /\ pc = "failed"
      /\ ret.status # "ok"
      /\ weights = << >> /\ biases = << >>

\* C7 as stated: evaluate on an empty inputs sequence reports an error and
\* returns no value computed from the division by zero.
C7_EmptyInputError ==
    (pc = "returned" /\ ret.op = "evaluate" /\ frame.inputs = << >>) =>
      /\ ret.status # "ok"
      /\ ret.value # "NaN"

\* the target of sample i (0-based), when labels holds one, has the length of
\* the output
TargetValidated(i) ==
    i + 1 <= Len(frame.labels) => Len(frame.labels[i + 1]) = output_size

\* C8 as stated: within train a sample's input length and target length are
\* validated before its first weight or bias is written, so that no backward
\* pass runs for a sample failing validation, and when an error is raised the
\* parameters are those the completed updates left.
C8_ValidatedBeforeWrite ==
    ret.op \in {"train", "none"} =>
      /\ \A p \in 1..Len(trace) :
            trace[p][1] = "backward" =>
               /\ Len(frame.inputs[trace[p][3] + 1]) = input_size
               /\ TargetValidated(trace[p][3])
      /\ (pc = "returned" /\ ret.op = "train" /\ ret.status # "ok") =>
            Parameters(This) = committed

\* C9: forward propagation, reached through predict, evaluate or train, on an
\* input whose length differs from the first layer's column count raises
\* invalid_argument at that call and returns no output.
C9_InputLengthChecked ==
    LET columns == Len(weights[1][1])
        bad(input) == Len(input) # columns
    IN  /\ \A input \in InputVectors :
              bad(input) =>
                 LET f == forward_propagation(This, input) IN
                 f.threw /\ f.output = << >>
        /\ (pc = "returned" /\ ret.op = "predict" /\ bad(frame.inputs[1])) =>
              ret.status = "invalid_argument" /\ ret.value = "none"
        /\ (pc = "returned" /\ ret.op = "evaluate"
               /\ \E k \in 1..Len(frame.inputs) : bad(frame.inputs[k])) =>
              ret.status = "invalid_argument" /\ ret.value = "none"
        /\ pc = "train_backward" => ~bad(frame.inputs[frame.i + 1])
        /\ (pc = "returned" /\ ret.op = "train" /\ trace # << >>
               /\ bad(frame.inputs[trace[Len(trace)][3] + 1])) =>
              /\ ret.status = "invalid_argument"
              /\ trace[Len(trace)][1] = "forward"

\* C9's case: train left by the error at its second sample, an input too long
C9_Witness ==
    /\ pc = "returned" /\ ret.op = "train" /\ ret.status = "invalid_argument"
    /\ Len(trace) = 3
    /\ Len(frame.inputs[2]) = Len(weights[1][1]) + 1

\* the samples of the last evaluate call whose prediction equals their label
Matching ==
    { k \in 1..Len(frame.inputs) :
        predict(This, frame.inputs[k]).value = frame.labels[k] }

\* C10: for non-empty inputs with one label each evaluate returns
\* 100 * correct / total, correct the number of samples whose prediction
\* equals the label: 100 when all match, 0 when none does.
C10_Accuracy ==
    (pc = "returned" /\ ret.op = "evaluate" /\ ret.status = "ok"
        /\ frame.inputs # << >> /\ Len(frame.labels) = Len(frame.inputs)) =>
      LET total   == Len(frame.inputs)
          correct == Cardinality(Matching)
      IN  /\ ret.value \in Nat \X (Nat \ {0})
          /\ ret.value[1] * total = 100 * correct * ret.value[2]
          /\ correct = total => ret.value = << 100, 1 >>
          /\ correct = 0 => ret.value = << 0, 1 >>

\* C10's case: two samples, exactly one predicted as labelled
C10_Witness ==
    /\ pc = "returned" /\ ret.op = "evaluate" /\ ret.status = "ok"
    /\ Len(frame.inputs) = 2 /\ Len(frame.labels) = 2
    /\ Cardinality(Matching) = 1
    /\ ret.value = << 50, 1 >>

(***************************************************************************)
(* C11.  The equations of one backward call, written over the state the    *)
(* call starts in: frame.inputs[frame.i + 1] is its input and              *)
(* frame.labels[frame.i + 1] its target.                                   *)
(***************************************************************************)
RECURSIVE DeltaOf(_)
RECURSIVE WeightAfter(_, _, _)

\* what the update of layer l multiplies delta[i] by, for column j
PrevActivation(l, j) ==
    IF l = 1 THEN frame.inputs[frame.i + 1][j] ELSE activations[l - 1][j]

\* the error of layer l: final activation minus target for the last layer,
\* else the error of layer l + 1 sent back through that layer's weights as
\* they are after this call's update, times the ReLU derivative at z
DeltaOf(l) ==
    IF l = Len(weights)
    THEN [i \in 1..Len(activations[l]) |->
            activations[l][i] - frame.labels[frame.i + 1][i]]
    ELSE [j \in 1..Len(z_values[l]) |->
            SumUpTo([i \in 1..Len(weights[l + 1]) |->
                       Mul(DeltaOf(l + 1)[i], WeightAfter(l + 1, i, j))],
                    Len(weights[l + 1]))
              * (IF z_values[l][j] > 0 THEN 1 ELSE 0)]

\* weight[i][j] of layer l after the call: one subtraction
WeightAfter(l, i, j) ==
    weights[l][i][j] - Mul(Mul(learning_rate, DeltaOf(l)[i]), PrevActivation(l, j))

\* bias[i] of layer l after the call: one subtraction
BiasAfter(l, i) == biases[l][i] - Mul(learning_rate, DeltaOf(l)[i])

\* the backward call of the current sample has a target to subtract
TargetPresent ==
    /\ frame.i + 1 <= Len(frame.labels)
    /\ Len(frame.labels[frame.i + 1]) >= output_size

\* C11: one backward call, given a target of the output's length, leaves
\* every weight at weight[i][j] - learning_rate * delta[i] * prev_activation[j]
\* and every bias at bias[i] - learning_rate * delta[i], one subtraction each,
\* where the delta of the last layer is final activation minus target and the
\* delta of each other layer is (sum over i of delta[i] * weight[i][j]) of the
\* layer after it, with that layer's weights as already updated by this call,
\* times 1 if the cached z[j] > 0 and 0 otherwise.
C11_BackwardStep ==
    (pc = "train_backward" /\ TargetPresent) =>
       /\ weights' = [l \in 1..Len(weights) |->
                        [i \in 1..Len(weights[l]) |->
                           [j \in 1..Len(weights[l][i]) |-> WeightAfter(l, i, j)]]]
       /\ biases' = [l \in 1..Len(biases) |->
                       [i \in 1..Len(biases[l]) |-> BiasAfter(l, i)]]

C11_Backward == [][C11_BackwardStep]_vars

\* the object as it was when the current call was entered (cache aside)
EntryObject ==
    [ weights |-> entry.weights, biases |-> entry.biases,
      learning_rate |-> entry.learning_rate,
      activations |-> << >>, z_values |-> << >> ]

\* nn after the forward and backward call of sample k of the current frame
AfterSample(nn, k) ==
    backward_propagation(forward_propagation(nn, frame.inputs[k]).nn,
                         frame.inputs[k], frame.labels[k], << >>)

\* C11's case: the backward call of the second sample of a train call on the
\* three-layer network has run and changed weights of both layers, so the
\* error sent back to the first layer was not zero and went through weights
\* this call had changed
C11_Witness ==
    /\ architecture = << 2, 3, 2 >>
    /\ Len(trace) = 4 /\ trace[4] = << "backward", 0, 1 >>
    /\ Len(frame.labels) = 2
    /\ \A k \in 1..2 : Len(frame.labels[k]) = output_size
    /\ LET before == AfterSample(EntryObject, 1) IN
       /\ \E i \in 1..Len(weights[1]) : \E j \in 1..Len(weights[1][i]) :
             weights[1][i][j] # before.weights[1][i][j]
       /\ \E i \in 1..Len(weights[2]) : \E j \in 1..Len(weights[2][i]) :
             weights[2][i][j] # before.weights[2][i][j]

(***************************************************************************)
(* C12.  The cache after a completed forward call.                         *)
(***************************************************************************)
\* the last thing the object did is a forward call that returned: the one of
\* the current train step, of predict, or of the last sample of evaluate
ForwardCompleted ==
    \/ pc = "train_backward"
    \/ /\ pc = "returned" /\ ret.status = "ok"
       /\ ret.op \in { "predict", "evaluate" }
       /\ frame.inputs # << >>

\* the input of that call
LastInput ==
    IF pc = "train_backward" THEN frame.inputs[frame.i + 1]
                             ELSE frame.inputs[Len(frame.inputs)]

\* C12: after every completed forward call on a network of L layers the
\* cache holds exactly L pre-activation vectors and L activation vectors,
\* entry l of each as long as layer l, all computed from the input of this
\* call (nothing of an earlier call is left and nothing was appended), and the
\* returned output is the last cached activation.
C12_Cache ==
    ForwardCompleted =>
      LET L      == Len(weights)
          x      == LastInput
          in(l)  == IF l = 1 THEN x ELSE activations[l - 1]
          f      == forward_propagation(This, x)
      IN  /\ Len(z_values) = L
          /\ Len(activations) = L
          /\ \A l \in 1..L :
                /\ Len(z_values[l]) = architecture[l + 1]
                /\ Len(activations[l]) = architecture[l + 1]
                /\ \A j \in 1..architecture[l + 1] :
                      z_values[l][j] = dot_product(weights[l][j], in(l)) + biases[l][j]
                /\ activations[l] = IF l = L THEN softmax(z_values[l])
                                             ELSE apply_relu(z_values[l])
          /\ ~f.threw
          /\ f.nn.activations = activations
          /\ f.output = activations[L]
          /\ (ret.op = "predict" /\ pc = "returned") =>
                ret.value = max_element(activations[L]) - 1

\* C12's case: the forward call of the second sample of a train call on the
\* three-layer network has completed; the first sample's forward call had
\* filled the cache with other values
C12_Witness ==
    /\ pc = "train_backward"
    /\ architecture = << 2, 3, 2 >>
    /\ Len(trace) = 3 /\ trace[3] = << "forward", 0, 1 >>
    /\ Len(activations) = 2 /\ Len(z_values) = 2
    /\ LET first == forward_propagation(EntryObject, frame.inputs[1]).nn IN
       /\ activations[1] # first.activations[1]
       /\ z_values[2] # first.z_values[2]

=============================================================================
